---- MODULE Spec2Model ----
(***************************************************************************)
(* The MIR pass UninhabitedEnumBranching                                   *)
(* (src/librustc_mir/transform/uninhabited_enum_branching.rs).             *)
(*                                                                         *)
(* The state is one function body under transformation, the MirSource it   *)
(* belongs to, the layout and discriminant queries of the type context,    *)
(* and the position of run_pass in its loop over the eligible blocks.      *)
(* The pass manager hands the body to run_pass, and hands the result to    *)
(* run_pass once more, so that repeated application is observable.         *)
(***************************************************************************)
EXTENDS Integers, Sequences, FiniteSets, TLC

\* ------------------------------------------------------------------ bounds
\* Variants per enum; tags range over 0..NumVariants, one more than the indices.
NumVariants == 2
\* Longest value list of a generated SwitchInt.
MaxLen == 3
\* Longest statement list of a generated block.
MaxStmts == 2
\* Switching blocks of a body in which several blocks interact.
NumHead == 2

VARIABLES source, tcx, body, body_in, first_out, pass, pc, blocks_to_update, next, bb_ty, allowed_variants

vars == <<source, tcx, body, body_in, first_out, pass, pc, blocks_to_update, next, bb_ty, allowed_variants>>

\* ------------------------------------------------------------------ Option
None == <<>>
Some(x) == <<x>>
is_some(o) == o # None
unwrap(o) == o[1]

Range(s) == {s[i] : i \in 1..Len(s)}

\* ------------------------------------------------------------------ MIR data
\* rustc::mir::Place: a local and its projections.
Place(local, projection) == [local |-> local, projection |-> projection]
Bare(local) == Place(local, <<>>)
Projected(local) == Place(local, <<"Field">>)

\* Place::as_local: the local of a place without projections.
as_local(place) == IF place.projection = <<>> THEN Some(place.local) ELSE None

\* rustc::mir::Operand
Move(place) == [kind |-> "Move", place |-> place]
Copy(place) == [kind |-> "Copy", place |-> place]
Constant == [kind |-> "Constant"]

\* rustc::mir::StatementKind / Rvalue
Discriminant(place) == [kind |-> "Discriminant", place |-> place]
Use == [kind |-> "Use"]
Assign(lhs, rvalue) == [kind |-> "Assign", lhs |-> lhs, rvalue |-> rvalue]
Nop == [kind |-> "Nop"]

\* rustc::mir::TerminatorKind
SwitchInt(discr, values, targets) ==
    [kind |-> "SwitchInt", discr |-> discr, values |-> values, targets |-> targets]
Goto(target) == [kind |-> "Goto", target |-> target]
Return == [kind |-> "Return"]

BasicBlockData(statements, terminator) == [statements |-> statements, terminator |-> terminator]

\* rustc::ty::Ty, as far as the pass looks at it.
TyInt == [kind |-> "Int", name |-> "isize"]
TyStruct == [kind |-> "Struct", name |-> "S"]
TyE1 == [kind |-> "Enum", name |-> "E1"]
TyE2 == [kind |-> "Enum", name |-> "E2"]
Tys == {TyInt, TyStruct, TyE1, TyE2}

\* TyS::is_enum
is_enum(ty) == ty.kind = "Enum"

\* ------------------------------------------------------------------ layout
VariantIdx == 0..(NumVariants - 1)
Tags == 0..NumVariants

\* rustc::ty::layout::Variants and the Result of layout_of.
Single(index) == [kind |-> "Single", index |-> index]
Multiple(variants) == [kind |-> "Multiple", variants |-> variants]
LayoutOk(variants) == [ok |-> TRUE, variants |-> variants]
LayoutErr == [ok |-> FALSE]

\* tcx.layout_of(param_env.and(ty))
layout_of(t, ty) == t.layout[ty]

\* ty.discriminant_for_variant(tcx, idx): Some(Discr) for an enum.
discriminant_for_variant(ty, t, idx) ==
    IF is_enum(ty) THEN Some([val |-> t.discr[ty][idx]]) ELSE None

\* A pass that does not look at source.promoted.
promoted_never(src) == FALSE

\* source.promoted.is_some()
promoted_is_some(src) == is_some(src.promoted)

\* ------------------------------------------------------------------ scanner
get_discriminant_local(terminator) ==
    IF terminator.kind = "SwitchInt" /\ terminator.discr.kind = "Move"
    THEN as_local(terminator.discr.place)
    ELSE None

\* A scanner that looks at the first statement of the block instead of the last.
stmt_first(block_data) ==
    IF Len(block_data.statements) > 0 THEN Some(block_data.statements[1]) ELSE None

\* (statements.len() > 0).then_with(|| &statements[statements.len() - 1].kind)
stmt_before_term(block_data) ==
    IF Len(block_data.statements) > 0
    THEN Some(block_data.statements[Len(block_data.statements)])
    ELSE None

\* A scanner that accepts a discriminant assigned to any place.
assigns_anything(l, local) == TRUE

\* l.as_local() == Some(local)
assigns_local(l, local) == as_local(l) = Some(local)

\* The body of the scanner's loop: the type a block switches on, if it is eligible.
eligible_ty(b, block_data) ==
    LET terminator == block_data.terminator
        local == get_discriminant_local(terminator)
    IN  IF is_some(local)
        THEN LET stmt == stmt_before_term(block_data)
             IN  IF /\ is_some(stmt)
                    /\ unwrap(stmt).kind = "Assign"
                    /\ unwrap(stmt).rvalue.kind = "Discriminant"
                 THEN LET l == unwrap(stmt).lhs
                          place == unwrap(stmt).rvalue.place
                      IN  IF assigns_local(l, unwrap(local))
                          THEN LET r_local == as_local(place)
                               IN  IF is_some(r_local)
                                   THEN LET ty == b.local_decls[unwrap(r_local)]
                                        IN  IF is_enum(ty) THEN Some(ty) ELSE None
                                   ELSE None
                          ELSE None
                 ELSE None
        ELSE None

RECURSIVE scan_from(_, _, _)
scan_from(b, bb, acc) ==
    IF bb > Len(b.basic_blocks)
    THEN acc
    ELSE LET ty == eligible_ty(b, b.basic_blocks[bb])
         IN  scan_from(b, bb + 1, IF is_some(ty) THEN Append(acc, <<bb, unwrap(ty)>>) ELSE acc)

find_eligible_blocks(b) == scan_from(b, 1, <<>>)

\* ------------------------------------------------------------------ inhabited set
\* A filter that collects variant indices in place of their discriminants.
RECURSIVE filter_map_indices(_, _, _, _, _)
filter_map_indices(variants, ty, t, i, acc) ==
    IF i > Len(variants)
    THEN acc
    ELSE filter_map_indices(variants, ty, t, i + 1,
            IF variants[i] # "Uninhabited" THEN Append(acc, i - 1) ELSE acc)

RECURSIVE filter_map_variants(_, _, _, _, _)
filter_map_variants(variants, ty, t, i, acc) ==
    IF i > Len(variants)
    THEN acc
    ELSE filter_map_variants(variants, ty, t, i + 1,
            IF variants[i] # "Uninhabited"
            THEN Append(acc, unwrap(discriminant_for_variant(ty, t, i - 1)).val)
            ELSE acc)

\* A computation that lets every variant of a Single layout through.
variant_discriminants_every(layout, ty, t) ==
    IF layout.variants.kind = "Single"
    THEN [i \in 1..NumVariants |-> i - 1]
    ELSE filter_map_variants(layout.variants.variants, ty, t, 1, <<>>)

variant_discriminants(layout, ty, t) ==
    IF layout.variants.kind = "Single"
    THEN <<layout.variants.index>>
    ELSE filter_map_variants(layout.variants.variants, ty, t, 1, <<>>)

\* ------------------------------------------------------------------ rewriter
Min(a, b) == IF a < b THEN a ELSE b

\* A loop that pushes each matched pair in front of the earlier ones.
RECURSIVE matched_in_front(_, _, _, _, _)
matched_in_front(values, targets, allowed, i, acc) ==
    IF i > Min(Len(values), Len(targets))
    THEN acc
    ELSE matched_in_front(values, targets, allowed, i + 1,
            IF values[i] \in Range(allowed)
            THEN [matched_values |-> <<values[i]>> \o acc.matched_values,
                  matched_targets |-> <<targets[i]>> \o acc.matched_targets]
            ELSE acc)

\* The loop over values zipped with targets.
RECURSIVE matched(_, _, _, _, _)
matched(values, targets, allowed, i, acc) ==
    IF i > Min(Len(values), Len(targets))
    THEN acc
    ELSE matched(values, targets, allowed, i + 1,
            IF values[i] \in Range(allowed)
            THEN [matched_values |-> Append(acc.matched_values, values[i]),
                  matched_targets |-> Append(acc.matched_targets, targets[i])]
            ELSE acc)

\* A rewriter that turns a fully pruned switch into a jump to the otherwise target.
rewrite_switch_or_goto(terminator, allowed) ==
    LET m == matched(terminator.values, terminator.targets, allowed, 1,
                     [matched_values |-> <<>>, matched_targets |-> <<>>])
        otherwise == terminator.targets[Len(terminator.targets)]
    IN  IF m.matched_values = <<>>
        THEN Goto(otherwise)
        ELSE [terminator EXCEPT !.values = m.matched_values,
                                !.targets = Append(m.matched_targets, otherwise)]

\* A rewriter whose loop starts at the second pair.
rewrite_switch_from_second(terminator, allowed) ==
    LET m == matched(terminator.values, terminator.targets, allowed, 2,
                     [matched_values |-> <<>>, matched_targets |-> <<>>])
        otherwise == terminator.targets[Len(terminator.targets)]
    IN  [terminator EXCEPT !.values = m.matched_values,
                           !.targets = Append(m.matched_targets, otherwise)]

\* The new terminator of an eligible block.
rewrite_switch(terminator, allowed) ==
    LET m == matched(terminator.values, terminator.targets, allowed, 1,
                     [matched_values |-> <<>>, matched_targets |-> <<>>])
        otherwise == terminator.targets[Len(terminator.targets)]
    IN  [terminator EXCEPT !.values = m.matched_values,
                           !.targets = Append(m.matched_targets, otherwise)]

\* ------------------------------------------------------------------ inputs
\* Locals of every generated body: _1 and _2 are integer temporaries, _3 and _4
\* hold enums, _5 holds a struct.
local_decls == <<TyInt, TyInt, TyE1, TyE2, TyStruct>>

SeqsUpTo(S, n) == UNION {[1..k -> S] : k \in 0..n}
\* Value lists of a SwitchInt: each value names one arm, so the values are
\* pairwise distinct, and there is one target more than there are values.
DistinctSeqs(S, n) == {s \in SeqsUpTo(S, n) : \A i, j \in 1..Len(s) : i # j => s[i] # s[j]}

\* The blocks a switch branches to follow the switching blocks of a body.
ArmBlocks == [i \in 1..(MaxLen + 1) |-> BasicBlockData(<<>>, Return)]
MkBody(heads) == [basic_blocks |-> heads \o ArmBlocks, local_decls |-> local_decls]

\* A switch over `values` whose targets are the arm blocks in order, the
\* otherwise target last; `base` is the number of switching blocks of the body.
ArmTargets(n, base) == [i \in 1..(n + 1) |-> base + i]
SwitchOn(discr, values, base) == SwitchInt(discr, values, ArmTargets(Len(values), base))

\* _1 = discriminant(p); switchInt(move _1) -> [values..., otherwise]
EligibleSwitch(p, values, base) ==
    BasicBlockData(<<Assign(Bare(1), Discriminant(Bare(p)))>>, SwitchOn(Move(Bare(1)), values, base))

Sources == {[promoted |-> None], [promoted |-> Some(0)]}

Abis == {"Aggregate", "Uninhabited"}
Layouts ==
    {LayoutErr} \cup {LayoutOk(Single(i)) : i \in VariantIdx}
                \cup {LayoutOk(Multiple(v)) : v \in [1..NumVariants -> Abis]}

\* Discriminant tables: distinct tags for distinct variants.
Tables == {f \in [VariantIdx -> Tags] : \A i, j \in VariantIdx : i # j => f[i] # f[j]}
IdTable == [i \in VariantIdx |-> i]

MkTcx(l1, l2, d1) ==
    [layout |-> [ty \in Tys |-> IF ty = TyE1 THEN l1
                                ELSE IF ty = TyE2 THEN l2
                                ELSE LayoutOk(Single(0))],
     discr |-> [ty \in {TyE1, TyE2} |-> IF ty = TyE1 THEN d1 ELSE IdTable]]

InitControl ==
    /\ body_in = body
    /\ first_out = None
    /\ pass = 1
    /\ pc = "start"
    /\ blocks_to_update = <<>>
    /\ next = 1
    /\ bb_ty = None
    /\ allowed_variants = None

\* One eligible switch on _3 : E1, over every value list, layout and table.
InitSwitch ==
    /\ source \in Sources
    /\ \E l1 \in Layouts, d1 \in Tables : tcx = MkTcx(l1, LayoutErr, d1)
    /\ \E values \in DistinctSeqs(Tags, MaxLen) : body = MkBody(<<EligibleSwitch(3, values, 1)>>)

\* Several switching blocks on two enums, eligible or not.
MixBlocks(base) ==
    { EligibleSwitch(p, values, base) : p \in {3, 4}, values \in {<<0, 1>>, <<1, 0>>} } \cup
    {
      BasicBlockData(<<Assign(Bare(2), Discriminant(Bare(3)))>>, SwitchOn(Move(Bare(1)), <<0, 1>>, base)),
      BasicBlockData(<<Nop>>, Goto(base + 1)) }

InitBlocks ==
    /\ source \in Sources
    /\ \E l1 \in Layouts, l2 \in Layouts : tcx = MkTcx(l1, l2, IdTable)
    /\ \E heads \in [1..NumHead -> MixBlocks(NumHead)] : body = MkBody(heads)

\* One block of every shape the scanner distinguishes.
ShapeStatements ==
    { Nop,
      Assign(Bare(1), Use),
      Assign(Bare(1), Discriminant(Bare(3))),
      Assign(Bare(1), Discriminant(Bare(4))),
      Assign(Bare(2), Discriminant(Bare(3))),
      Assign(Projected(1), Discriminant(Bare(3))),
      Assign(Bare(1), Discriminant(Projected(3))),
      Assign(Bare(1), Discriminant(Bare(5))) }
ShapeTerminators ==
    { SwitchOn(d, <<0, 1>>, 1) :
        d \in {Move(Bare(1)), Move(Bare(2)), Copy(Bare(1)), Move(Projected(1)), Constant} }
    \cup {Goto(2), Return}

InitShapes ==
    /\ source \in Sources
    /\ tcx = MkTcx(LayoutOk(Multiple([i \in 1..NumVariants |-> IF i = 1 THEN "Aggregate" ELSE "Uninhabited"])),
                   LayoutErr, IdTable)
    /\ \E statements \in SeqsUpTo(ShapeStatements, MaxStmts), terminator \in ShapeTerminators :
          body = MkBody(<<BasicBlockData(statements, terminator)>>)

Init == (InitSwitch \/ InitBlocks \/ InitShapes) /\ InitControl

\* ------------------------------------------------------------------ run_pass
\* if source.promoted.is_some() { return; }
RunPassPromoted ==
    /\ pc = "start"
    /\ promoted_is_some(source)
    /\ pc' = "done"
    /\ UNCHANGED <<source, tcx, body, body_in, first_out, pass, blocks_to_update, next, bb_ty, allowed_variants>>

\* let blocks_to_update = find_eligible_blocks(&body);
RunPassScan ==
    /\ pc = "start"
    /\ ~promoted_is_some(source)
    /\ blocks_to_update' = find_eligible_blocks(body)
    /\ next' = 1
    /\ pc' = "loop"
    /\ UNCHANGED <<source, tcx, body, body_in, first_out, pass, bb_ty, allowed_variants>>

\* A loop that stops at the first layout query that fails.
LoopLayoutErrBreak ==
    /\ pc = "loop"
    /\ next <= Len(blocks_to_update)
    /\ LET discriminant_ty == blocks_to_update[next][2]
           layout == layout_of(tcx, discriminant_ty)
       IN  /\ ~layout.ok
           /\ bb_ty' = Some(blocks_to_update[next])
           /\ allowed_variants' = None
           /\ next' = Len(blocks_to_update) + 1
    /\ UNCHANGED <<source, tcx, body, body_in, first_out, pass, pc, blocks_to_update>>

\* One iteration whose layout query fails: continue.
LoopLayoutErr ==
    /\ pc = "loop"
    /\ next <= Len(blocks_to_update)
    /\ LET discriminant_ty == blocks_to_update[next][2]
           layout == layout_of(tcx, discriminant_ty)
       IN  /\ ~layout.ok
           /\ bb_ty' = Some(blocks_to_update[next])
           /\ allowed_variants' = None
           /\ next' = next + 1
    /\ UNCHANGED <<source, tcx, body, body_in, first_out, pass, pc, blocks_to_update>>

\* One iteration whose layout query succeeds: the terminator is rewritten.
LoopRewrite ==
    /\ pc = "loop"
    /\ next <= Len(blocks_to_update)
    /\ LET bb == blocks_to_update[next][1]
           discriminant_ty == blocks_to_update[next][2]
           layout == layout_of(tcx, discriminant_ty)
           block_data == body.basic_blocks[bb]
       IN  /\ layout.ok
           /\ LET allowed == variant_discriminants(layout, discriminant_ty, tcx)
              IN  /\ allowed_variants' = Some(allowed)
                  /\ bb_ty' = Some(blocks_to_update[next])
                  /\ IF block_data.terminator.kind = "SwitchInt"
                     THEN /\ body' = [body EXCEPT !.basic_blocks[bb].terminator =
                                         rewrite_switch(block_data.terminator, allowed)]
                          /\ next' = next + 1
                          /\ pc' = pc
                     ELSE \* unreachable!()
                          /\ body' = body
                          /\ next' = next
                          /\ pc' = "panic"
    /\ UNCHANGED <<source, tcx, body_in, first_out, pass, blocks_to_update>>

\* The loop is exhausted and run_pass returns.
LoopExit ==
    /\ pc = "loop"
    /\ next > Len(blocks_to_update)
    /\ pc' = "done"
    /\ UNCHANGED <<source, tcx, body, body_in, first_out, pass, blocks_to_update, next, bb_ty, allowed_variants>>

\* The pass manager applies run_pass to the result once more.
Rerun ==
    /\ pc = "done"
    /\ pass = 1
    /\ pass' = 2
    /\ pc' = "start"
    /\ first_out' = Some(body)
    /\ blocks_to_update' = <<>>
    /\ next' = 1
    /\ bb_ty' = None
    /\ allowed_variants' = None
    /\ UNCHANGED <<source, tcx, body, body_in>>

Next ==
    \/ RunPassPromoted
    \/ RunPassScan
    \/ LoopLayoutErr
    \/ LoopRewrite
    \/ LoopExit
    \/ Rerun

Spec == Init /\ [][Next]_vars

\* ================================================================== claims
\* Vocabulary of the claims, stated on the input body (body_in) and the
\* current body.
Blocks == 1..Len(body_in.basic_blocks)
Locals == 1..Len(body_in.local_decls)
Old(bb) == body_in.basic_blocks[bb]
New(bb) == body.basic_blocks[bb]
Otherwise(terminator) == terminator.targets[Len(terminator.targets)]
Reported == Range(blocks_to_update)
LayoutSucceeds(ty) == tcx.layout[ty].ok
\* run_pass of an ordinary (not promoted) body has returned.
Returned == pc = "done" /\ source.promoted = None
\* The allowed-tag set run_pass computes for a type whose layout query succeeds.
AllowedTags(ty) == Range(variant_discriminants(tcx.layout[ty], ty, tcx))
\* The tag of a variant, by the discriminant-for-variant query.
TagOf(ty, idx) == tcx.discr[ty][idx]

\* The eligibility pattern: block bb ends in a SwitchInt on move of the bare
\* local L, and its last statement assigns to L the discriminant of the bare
\* local P, whose declared type is an enum.
Pattern(b, bb, L, P) ==
    LET block == b.basic_blocks[bb]
    IN  /\ block.terminator.kind = "SwitchInt"
        /\ block.terminator.discr = Move(Bare(L))
        /\ block.statements # <<>>
        /\ block.statements[Len(block.statements)] = Assign(Bare(L), Discriminant(Bare(P)))
        /\ is_enum(b.local_decls[P])
MatchesPattern(b, bb) == \E L, P \in Locals : Pattern(b, bb, L, P)

\* C1: after run_pass, the explicit (value, target) pairs of every reported
\* block whose layout query succeeds are exactly the original pairs whose value
\* is in the allowed-tag set, in their original relative order, each with its
\* original target.
C1_SurvivorsAreTheAllowedPairs ==
    Returned =>
        \A e \in Reported : LayoutSucceeds(e[2]) =>
            LET old == Old(e[1]).terminator
                new == New(e[1]).terminator
                kept == {i \in 1..Len(old.values) : old.values[i] \in AllowedTags(e[2])}
            IN  /\ Len(new.values) = Cardinality(kept)
                /\ \E f \in [1..Len(new.values) -> 1..Len(old.values)] :
                      /\ \A i, j \in DOMAIN f : i < j => f[i] < f[j]
                      /\ {f[j] : j \in DOMAIN f} = kept
                      /\ \A j \in DOMAIN f : /\ new.values[j] = old.values[f[j]]
                                             /\ new.targets[j] = old.targets[f[j]]

\* A switch of three pairs of which two survive, and not in ascending order.
C1_Witness ==
    /\ Returned
    /\ \E e \in Reported :
          /\ LayoutSucceeds(e[2])
          /\ Len(Old(e[1]).terminator.values) = 3
          /\ Len(New(e[1]).terminator.values) = 2
          /\ New(e[1]).terminator.values[1] > New(e[1]).terminator.values[2]

\* C2: a rewritten block still ends in a SwitchInt whose targets are the
\* surviving explicit targets followed by the original otherwise target, one
\* more target than values, also when every explicit pair is pruned.
C2_OtherwiseRetained ==
    Returned =>
        \A e \in Reported : LayoutSucceeds(e[2]) =>
            LET old == Old(e[1]).terminator
                new == New(e[1]).terminator
            IN  /\ new.kind = "SwitchInt"
                /\ Len(new.targets) = Len(new.values) + 1
                /\ Otherwise(new) = Otherwise(old)
                /\ \A j \in 1..Len(new.values) :
                      \E i \in 1..Len(old.values) :
                          old.values[i] = new.values[j] /\ old.targets[i] = new.targets[j]
                /\ (new.values = <<>> => new.targets = <<Otherwise(old)>>)

\* A switch of at least two pairs, all pruned, is a SwitchInt on nothing.
C2_Witness ==
    /\ Returned
    /\ \E e \in Reported :
          /\ LayoutSucceeds(e[2])
          /\ Len(Old(e[1]).terminator.values) >= 2
          /\ New(e[1]).terminator = [Old(e[1]).terminator EXCEPT
                                        !.values = <<>>,
                                        !.targets = <<Otherwise(Old(e[1]).terminator)>>]

\* C3: the second application of run_pass leaves the result of the first as it is.
C3_Idempotent ==
    pass = 2 => body = unwrap(first_out)

\* The second application has returned on a body the first one changed.
C3_Witness ==
    /\ pass = 2
    /\ Returned
    /\ unwrap(first_out) # body_in
    /\ Reported # {}

\* C4: run_pass changes only the value list and target list of the SwitchInt
\* of blocks that match the eligibility pattern: blocks and locals are neither
\* added nor removed, statements and the discriminant operand stay, and every
\* block that does not match the pattern is as it was.
C4_NonInterference ==
    /\ Len(body.basic_blocks) = Len(body_in.basic_blocks)
    /\ body.local_decls = body_in.local_decls
    /\ \A bb \in Blocks :
          /\ New(bb).statements = Old(bb).statements
          /\ New(bb).terminator.kind = Old(bb).terminator.kind
          /\ IF MatchesPattern(body_in, bb)
             THEN New(bb).terminator.discr = Old(bb).terminator.discr
             ELSE New(bb) = Old(bb)

\* Scenario C next to an eligible block: a SwitchInt on move _1 whose last
\* statement assigns the discriminant to another local is as it was, while the
\* eligible block was rewritten.
C4_Witness ==
    /\ Returned
    /\ \E bb, cc \in Blocks :
          /\ MatchesPattern(body_in, bb)
          /\ New(bb) # Old(bb)
          /\ ~MatchesPattern(body_in, cc)
          /\ Old(cc).terminator.kind = "SwitchInt"
          /\ Old(cc).terminator.discr = Move(Bare(1))
          /\ Old(cc).statements = <<Assign(Bare(2), Discriminant(Bare(3)))>>
          /\ tcx.layout[TyE1] = LayoutOk(Single(0))
          /\ New(cc) = Old(cc)

\* C5: a failing layout query raises no error and leaves that block as it
\* was, and every other reported block whose layout query succeeds is rewritten.
C5_LayoutFailureSkipsOneBlock ==
    /\ pc # "panic"
    /\ Returned =>
          \A e \in Reported :
              IF LayoutSucceeds(e[2])
              THEN Range(New(e[1]).terminator.values) =
                       Range(Old(e[1]).terminator.values) \cap AllowedTags(e[2])
              ELSE New(e[1]) = Old(e[1])

\* A block whose layout query fails, followed by one that is rewritten.
C5_Witness ==
    /\ Returned
    /\ \E i, j \in 1..Len(blocks_to_update) :
          /\ i < j
          /\ ~LayoutSucceeds(blocks_to_update[i][2])
          /\ LayoutSucceeds(blocks_to_update[j][2])
          /\ New(blocks_to_update[i][1]) = Old(blocks_to_update[i][1])
          /\ New(blocks_to_update[j][1]) # Old(blocks_to_update[j][1])

\* C6: for a promoted body, the body is at every moment the input body.
C6_PromotedUntouched ==
    source.promoted # None => body = body_in

\* A promoted body with a block the pass would prune has been through run_pass.
C6_Witness ==
    /\ source.promoted # None
    /\ pc = "done"
    /\ \E e \in Range(find_eligible_blocks(body_in)) :
          /\ LayoutSucceeds(e[2])
          /\ \E v \in Range(Old(e[1]).terminator.values) : v \notin AllowedTags(e[2])

C8_SingleYieldsVariantTag ==
    (is_some(bb_ty) /\ is_some(allowed_variants)) =>
        LET ty == unwrap(bb_ty)[2]
        IN  tcx.layout[ty].variants.kind = "Single" =>
                unwrap(allowed_variants) = <<TagOf(ty, tcx.layout[ty].variants.index)>>

\* C9: for a layout Multiple, the allowed set holds a variant's tag iff the
\* variant is not flagged uninhabited, and nothing but variants' tags; and
\* (Scenario A) a switch over <<tag(A), tag(B)>> on an enum of which only A is
\* inhabited comes out as the pair of A's tag and A's target, then otherwise.
C9_MultipleYieldsInhabitedTags ==
    /\ (is_some(bb_ty) /\ is_some(allowed_variants)) =>
          LET ty == unwrap(bb_ty)[2]
              variants == tcx.layout[ty].variants
          IN  variants.kind = "Multiple" =>
                  /\ \A idx \in VariantIdx :
                        TagOf(ty, idx) \in Range(unwrap(allowed_variants))
                            <=> variants.variants[idx + 1] # "Uninhabited"
                  /\ Range(unwrap(allowed_variants)) \subseteq {TagOf(ty, idx) : idx \in VariantIdx}
    /\ Returned =>
          \A e \in Reported :
              LET old == Old(e[1]).terminator
                  new == New(e[1]).terminator
                  variants == tcx.layout[e[2]].variants
              IN  ( /\ LayoutSucceeds(e[2])
                    /\ variants.kind = "Multiple"
                    /\ \A idx \in VariantIdx : variants.variants[idx + 1] = "Uninhabited" <=> idx # 0
                    /\ old.values = <<TagOf(e[2], 0), TagOf(e[2], 1)>> ) =>
                        /\ new.values = <<TagOf(e[2], 0)>>
                        /\ new.targets = <<old.targets[1], Otherwise(old)>>

\* Scenario A on an enum whose tags are not its variant indices.
C9_Witness ==
    /\ Returned
    /\ \E e \in Reported :
          /\ LayoutSucceeds(e[2])
          /\ tcx.layout[e[2]].variants.kind = "Multiple"
          /\ \A idx \in VariantIdx : tcx.layout[e[2]].variants.variants[idx + 1] = "Uninhabited" <=> idx # 0
          /\ TagOf(e[2], 0) # 0
          /\ Old(e[1]).terminator.values = <<TagOf(e[2], 0), TagOf(e[2], 1)>>
          /\ Len(New(e[1]).terminator.targets) = 2

\* C10: find_eligible_blocks reports a block iff it matches the eligibility
\* pattern, once, with the declared type of the local whose discriminant is
\* read, in block order; and the scan leaves the body as it was.
C10_ScanReportsThePattern ==
    (pc = "loop" /\ next = 1) =>
        /\ body = (IF pass = 1 THEN body_in ELSE unwrap(first_out))
        /\ Reported = {<<bb, ty>> \in Blocks \X Tys :
                          \E L, P \in Locals : Pattern(body, bb, L, P) /\ ty = body.local_decls[P]}
        /\ \A i, j \in 1..Len(blocks_to_update) :
              i < j => blocks_to_update[i][1] < blocks_to_update[j][1]

\* The scan has reported two blocks that switch on different enums, in block
\* order, and none of the blocks they branch to.
C10_Witness ==
    /\ pc = "loop" /\ next = 1
    /\ blocks_to_update = <<<<1, TyE2>>, <<2, TyE1>>>>
    /\ Len(body.basic_blocks) > 2

====
